---- MODULE Spec2Model ----
(***************************************************************************)
(* Forecasting lab: the monitoring dashboard                               *)
(* (streamlit/monitoring/SFE_MONITORING_DASHBOARD.py) and the feature      *)
(* store setup routine (python/03_snowpark_setup.py).                      *)
(*                                                                         *)
(* Units.  AVG_QUEUED_QUERIES is held in hundredths (225 is 2.25),         *)
(* EXECUTION_TIME_SECONDS in whole seconds, credits in whole credits, the  *)
(* clock in seconds.  A value printed with the format .1f is held as the   *)
(* number of tenths that the text shows (50 is the text "5.0").            *)
(***************************************************************************)
EXTENDS Integers, Sequences, FiniteSets, TLC

VARIABLES
    now,            \* the wall clock read by the cache, in seconds
    cache,          \* st.cache_data store of fetch_data: query -> entry
    last,           \* the last fetch_data call: its query, result, and whether session.sql ran
    pc,             \* position of main() in the script run
    runs,           \* script runs started so far
    failures,       \* extractions that have failed so far
    time_window,    \* main: the sidebar's selected look-back in days
    frames,         \* main: the data frames held by the locals, by query kind
    dollars_per_credit, \* main: local of the same name
    errors,         \* kinds for which st.error was shown in this run
    panels,         \* panels rendered in this run
    recommendations,\* main: the list built by the rules of tab 4
    displayed,      \* the expanders of tab 4, in display order
    no_issues,      \* whether tab 4 showed the "No major issues" message
    amounts,        \* main: the dollar amounts computed in this run
    metering,       \* the records of WAREHOUSE_METERING_HISTORY for the warehouse
    reg,            \* feature store: state of ('SFE_STREAM_FEATURES', 'v1')
    spc,            \* position of setup_feature_store
    sdef,           \* the feature definition built by the current setup run
    calls,          \* feature store calls attempted by the current setup run
    raised,         \* exception that left setup_feature_store, or "none"
    source_rows,    \* the rows of the table FORECAST_INPUT_GLOBAL
    feature_rows    \* the rows of the registered feature view

dashVars  == <<now, cache, last, pc, runs, failures, time_window, frames, dollars_per_credit,
               errors, panels, recommendations, displayed, no_issues, amounts, metering>>
setupVars == <<reg, spc, sdef, calls, raised, source_rows, feature_rows>>
vars      == <<dashVars, setupVars>>

-----------------------------------------------------------------------------
(* Bounds of the model *)

MaxTime    == 300   \* the clock stops advancing here
MaxRuns    == 2     \* script runs of the dashboard
MaxFailures == 1    \* extractions that fail in one behaviour
MaxRows    == 2     \* rows of an enumerated frame
MaxHours   == 10    \* rows of an enumerated warehouse-metrics frame
MaxCredits == 2     \* largest TOTAL_CREDITS of an enumerated row
MaxWeeks   == 5     \* rows of the enumerated partition of the source table
MaxRecords == 3     \* records of an enumerated metering history

(* Program constants *)

TTL                  == 300  \* @st.cache_data(ttl=300)
QUEUED_THRESHOLD     == 2    \* if max_queued > 2
UTILIZATION_PCT      == 30   \* if utilization < 30
SLOW_SECONDS         == 300  \* EXECUTION_TIME_SECONDS > 300
TRAILING_ROWS        == 3    \* rows_between(-3, CURRENT_ROW)

TimeWindows == {7, 14}       \* two of the options [7, 14, 30] of the sidebar selectbox
TickStep    == {150}         \* clock advances between two steps, in seconds

NaN == 0 - 1                 \* a null cell (credits are never negative)

-----------------------------------------------------------------------------
(* Helpers over sequences *)

RECURSIVE SeqsUpTo(_, _)
SeqsUpTo(S, n) ==
    IF n = 0 THEN {<<>>}
    ELSE LET shorter == SeqsUpTo(S, n - 1)
         IN  shorter \cup {Append(s, x) : s \in {t \in shorter : Len(t) = n - 1}, x \in S}

RECURSIVE SumSeq(_)
SumSeq(s) == IF s = <<>> THEN 0 ELSE Head(s) + SumSeq(Tail(s))

RECURSIVE MaxSeq(_)
MaxSeq(s) ==
    IF Len(s) = 1 THEN Head(s)
    ELSE LET m == MaxSeq(Tail(s)) IN IF Head(s) > m THEN Head(s) ELSE m

(* Python's round-half-even of n/d to an integer, d > 0, n >= 0 *)
RoundHalfEven(n, d) ==
    LET q == n \div d
        r == n % d
    IN  IF 2 * r < d THEN q
        ELSE IF 2 * r > d THEN q + 1
        ELSE IF q % 2 = 0 THEN q ELSE q + 1

(* f"{x:.1f}" for x = n/d: the tenths the text shows *)
Fmt1(n, d) == RoundHalfEven(10 * n, d)

-----------------------------------------------------------------------------
(* Query kinds and query texts.  The text of every query but the cost      *)
(* parameters' embeds the number of days, so the text is the pair.         *)

Kinds == {"cost_params", "warehouse_metrics", "warehouse_load",
          "cost_by_workload", "daily_costs", "query_performance"}

QueryText(kind, days) == IF kind = "cost_params" THEN <<kind, 0>> ELSE <<kind, days>>

Queries == {QueryText(k, d) : k \in Kinds, d \in TimeWindows}

EmptyFrame == <<>>          \* pd.DataFrame(), and any result without rows

IsEmpty(df) == Len(df) = 0  \* df.empty

-----------------------------------------------------------------------------
(* Rows of the frames, with the columns main() reads *)

LoadRow(q)          == [AVG_QUEUED_QUERIES |-> q]
MetricsRow(h, c, n) == [HOUR |-> h, TOTAL_CREDITS |-> c, EXECUTION_COUNT |-> n]
PerfRow(t, w)       == [EXECUTION_TIME_SECONDS |-> t, QUEUE_TIME_SECONDS |-> w]
CostRow(w, p, c)    == [WORKLOAD_TYPE |-> w, MODEL_PATH |-> p, TOTAL_CREDITS |-> c]
DailyRow(d, c)      == [DATE |-> d, DAILY_CREDITS |-> c]
ParamRow(n, v)      == [PARAM_NAME |-> n, PARAM_VALUE |-> v]

Column(df, col) == [i \in 1..Len(df) |-> df[i][col]]

(* Series.sum(): null cells are skipped *)
SumSkipNa(s) == SumSeq([i \in 1..Len(s) |-> IF s[i] = NaN THEN 0 ELSE s[i]])

-----------------------------------------------------------------------------
(* The recommendation rules of tab 4 *)

NoArg == 0 - 1

Text(fmt, arg) == [fmt |-> fmt, arg |-> arg]

Recommendation(priority, category, issue, recommendation, action) ==
    [priority |-> priority, category |-> category, issue |-> issue,
     recommendation |-> recommendation, action |-> action]

(* variant: the threshold itself counts as queuing *)
QueuingFiresAtThreshold(max_queued) == max_queued >= QUEUED_THRESHOLD * 100

(* Analyze queuing *)
QueuingFires(max_queued) == max_queued > QUEUED_THRESHOLD * 100

QueuingRule(wh_load) ==
    IF ~IsEmpty(wh_load)
    THEN LET max_queued == MaxSeq(Column(wh_load, "AVG_QUEUED_QUERIES"))
         IN  IF QueuingFires(max_queued)
             THEN <<Recommendation("HIGH", "Performance",
                      Text("Significant query queuing detected", NoArg),
                      Text("Peak queued queries: {max_queued:.1f}. Consider scaling up warehouse size or enabling multi-cluster warehouses.",
                           Fmt1(max_queued, 100)),
                      "ALTER WAREHOUSE SFE_SP_WH SET WAREHOUSE_SIZE = LARGE;")>>
             ELSE <<>>
    ELSE <<>>

(* Analyze idle time *)
IsActive(row) == row.EXECUTION_COUNT > 0

(* variant: a utilization of exactly the threshold counts as low *)
UtilizationLowAtThreshold(active_hours, total_hours) ==
    active_hours * 100 <= UTILIZATION_PCT * total_hours

(* utilization = (active_hours / total_hours) * 100; utilization < 30 *)
UtilizationLow(active_hours, total_hours) ==
    active_hours * 100 < UTILIZATION_PCT * total_hours

UtilizationRule(wh_metrics) ==
    IF ~IsEmpty(wh_metrics)
    THEN LET total_hours  == Len(wh_metrics)
             active_hours == Len(SelectSeq(wh_metrics, IsActive))
         IN  IF total_hours > 0
             THEN IF UtilizationLow(active_hours, total_hours)
                  THEN <<Recommendation("MEDIUM", "Cost",
                           Text("Low warehouse utilization ({utilization:.1f}%)",
                                Fmt1(active_hours * 100, total_hours)),
                           Text("Consider reducing auto-suspend timeout or consolidating workloads to reduce idle time.", NoArg),
                           "ALTER WAREHOUSE SFE_SP_WH SET AUTO_SUSPEND = 30;")>>
                  ELSE <<>>
             ELSE <<>>
    ELSE <<>>

(* variant: a query of exactly the threshold counts as slow *)
IsSlowAtThreshold(row) == row.EXECUTION_TIME_SECONDS >= SLOW_SECONDS

(* Analyze slow queries *)
IsSlow(row) == row.EXECUTION_TIME_SECONDS > SLOW_SECONDS

SlowQueryRule(query_perf) ==
    IF ~IsEmpty(query_perf)
    THEN LET slow_queries == SelectSeq(query_perf, IsSlow)
         IN  IF Len(slow_queries) > 0
             THEN <<Recommendation("MEDIUM", "Performance",
                      Text("{len(slow_queries)} queries taking over 5 minutes",
                           Len(slow_queries)),
                      Text("Review slow queries for optimization opportunities (see Query Analysis tab).", NoArg),
                      "Check query execution plans and consider adding clustering keys or materialized views.")>>
             ELSE <<>>
    ELSE <<>>

(* Analyze cost distribution *)
IsUntagged(row) == row.WORKLOAD_TYPE = "UNTAGGED"

(* variant: the credits of the first row of the type, without the group sum *)
WorkloadCostsFirstRow(cost_by_workload, workload_type) ==
    LET OfType(row) == row.WORKLOAD_TYPE = workload_type
        rows == SelectSeq(cost_by_workload, OfType)
    IN  IF rows = <<>> \/ rows[1].TOTAL_CREDITS = NaN THEN 0 ELSE rows[1].TOTAL_CREDITS

(* cost_by_workload.groupby('WORKLOAD_TYPE')['TOTAL_CREDITS'].sum() at one index *)
WorkloadCosts(cost_by_workload, workload_type) ==
    LET OfType(row) == row.WORKLOAD_TYPE = workload_type
    IN  SumSkipNa(Column(SelectSeq(cost_by_workload, OfType), "TOTAL_CREDITS"))

AttributionFires(cost_by_workload) ==
    /\ \E i \in 1..Len(cost_by_workload) : IsUntagged(cost_by_workload[i])
    /\ WorkloadCosts(cost_by_workload, "UNTAGGED") > 0

AttributionRule(cost_by_workload) ==
    IF ~IsEmpty(cost_by_workload)
    THEN IF AttributionFires(cost_by_workload)
         THEN LET untagged == WorkloadCosts(cost_by_workload, "UNTAGGED")
                  total    == SumSkipNa(Column(cost_by_workload, "TOTAL_CREDITS"))
              IN  <<Recommendation("LOW", "Monitoring",
                       Text("{untagged_pct:.1f}% of queries are untagged",
                            Fmt1(untagged * 100, total)),
                       Text("Add query tags to all forecasting workloads for better cost attribution.", NoArg),
                       "ALTER SESSION SET QUERY_TAG = 'WORKLOAD:type|PATH:approach';")>>
         ELSE <<>>
    ELSE <<>>

(* variant: the four blocks chained with elif, so a rule is skipped when an  *)
(* earlier one has appended                                                 *)
EvaluateRulesFirstMatch(wh_load, wh_metrics, query_perf, cost_by_workload) ==
    IF QueuingRule(wh_load) # <<>> THEN QueuingRule(wh_load)
    ELSE IF UtilizationRule(wh_metrics) # <<>> THEN UtilizationRule(wh_metrics)
    ELSE IF SlowQueryRule(query_perf) # <<>> THEN SlowQueryRule(query_perf)
    ELSE AttributionRule(cost_by_workload)

(* The appends of tab 4, in program order *)
EvaluateRules(wh_load, wh_metrics, query_perf, cost_by_workload) ==
    QueuingRule(wh_load) \o UtilizationRule(wh_metrics)
        \o SlowQueryRule(query_perf) \o AttributionRule(cost_by_workload)

(* key=lambda x: {'HIGH': 0, 'MEDIUM': 1, 'LOW': 2}[x['priority']] *)
PriorityRank(priority) ==
    CASE priority = "HIGH"   -> 0
      [] priority = "MEDIUM" -> 1
      [] priority = "LOW"    -> 2

(* variant: rec goes before the elements of its own key, so ties come out reversed *)
RECURSIVE InsertBeforeEqual(_, _)
InsertBeforeEqual(sorted, rec) ==
    IF sorted = <<>> THEN <<rec>>
    ELSE IF PriorityRank(Head(sorted).priority) < PriorityRank(rec.priority)
         THEN <<Head(sorted)>> \o InsertBeforeEqual(Tail(sorted), rec)
         ELSE <<rec>> \o sorted

(* place rec after every element whose key is not greater: a stable insertion *)
RECURSIVE InsertByRank(_, _)
InsertByRank(sorted, rec) ==
    IF sorted = <<>> THEN <<rec>>
    ELSE IF PriorityRank(Head(sorted).priority) <= PriorityRank(rec.priority)
         THEN <<Head(sorted)>> \o InsertByRank(Tail(sorted), rec)
         ELSE <<rec>> \o sorted

(* sorted(recommendations, key=...): Python's sort is stable *)
RECURSIVE SortByPriority(_)
SortByPriority(recs) ==
    IF recs = <<>> THEN <<>>
    ELSE InsertByRank(SortByPriority(SubSeq(recs, 1, Len(recs) - 1)), recs[Len(recs)])

-----------------------------------------------------------------------------
(* The account-usage source behind the queries *)

MeterRow(h, c) == [hour |-> h, credits |-> c]

RECURSIVE SortedSeq(_)
SortedSeq(S) ==
    IF S = {} THEN <<>>
    ELSE LET m == CHOOSE x \in S : \A y \in S : x <= y
         IN  <<m>> \o SortedSeq(S \ {m})

(* variant: one row for every hour up to the last, joined to the metering   *)
(* records, so an hour without records has the count 0                      *)
WarehouseMetricsEveryHour(history) ==
    LET last_hour == IF history = <<>> THEN 0 ELSE MaxSeq(Column(history, "hour"))
        Group(h) == LET InHour(r) == r.hour = h IN SelectSeq(history, InHour)
    IN  [h \in 1..last_hour |->
            MetricsRow(h, SumSeq(Column(Group(h), "credits")), Len(Group(h)))]

(* get_warehouse_metrics: GROUP BY warehouse_name, hour; SUM(credits_used), *)
(* COUNT( * ); ORDER BY hour                                                *)
WarehouseMetricsResult(history) ==
    LET hours == SortedSeq({history[i].hour : i \in 1..Len(history)})
        Group(h) == LET InHour(r) == r.hour = h IN SelectSeq(history, InHour)
    IN  [i \in 1..Len(hours) |->
            MetricsRow(hours[i], SumSeq(Column(Group(hours[i]), "credits")),
                       Len(Group(hours[i])))]

MeteringHistories ==
    {<<MeterRow(1, 1), MeterRow(1, 1), MeterRow(2, 0)>>}

(* what a successful extraction of a kind can return *)
SourceFrames(kind) ==
    CASE kind = "cost_params" ->
            {<<ParamRow("DOLLARS_PER_CREDIT", 4), ParamRow("SP_WH_MEDIUM_CREDITS_PER_HOUR", 6)>>}
      [] kind = "warehouse_metrics" ->
            {WarehouseMetricsResult(metering)}
      [] kind = "warehouse_load" ->
            {<<LoadRow(100), LoadRow(500)>>}
      [] kind = "cost_by_workload" ->
            {<<CostRow("TRAINING", "ML_FUNCTIONS", 2), CostRow("UNTAGGED", "OTHER", 1)>>}
      [] kind = "daily_costs" ->
            {<<DailyRow(1, 2)>>}
      [] kind = "query_performance" ->
            {<<PerfRow(900, 1), PerfRow(300, 0)>>}

(* session.sql(query).to_pandas(): a frame, or an exception *)
ExtractOutcomes(kind) ==
    {[ok |-> FALSE, df |-> EmptyFrame]} \cup {[ok |-> TRUE, df |-> f] : f \in SourceFrames(kind)}

-----------------------------------------------------------------------------
(* fetch_data and its cache *)

NoEntry == [present |-> FALSE, df |-> EmptyFrame, at |-> 0, error |-> FALSE]

Entry(df, at, error) == [present |-> TRUE, df |-> df, at |-> at, error |-> error]

(* variant: an entry is still served at the instant of its expiry *)
FreshAtExpiry(entry, t) == entry.present /\ t <= entry.at + TTL

(* variant: the entry of a failed extraction is never served *)
FreshUnlessFailed(entry, t) == entry.present /\ ~entry.error /\ t < entry.at + TTL

(* @st.cache_data(ttl=300): an entry is served while the clock is before   *)
(* its expiry, the time it was stored plus the ttl                         *)
Fresh(entry, t) == entry.present /\ t < entry.at + TTL

(* the body of fetch_data: try / except Exception *)
FetchBody(outcome) ==
    IF outcome.ok
    THEN [raised |-> FALSE, df |-> outcome.df, error |-> FALSE]
    ELSE [raised |-> FALSE, df |-> EmptyFrame, error |-> TRUE]

(* fetch_data(query): a fresh entry is returned (with the st.error it      *)
(* recorded replayed); otherwise the body runs and its return is stored    *)
FetchData(query, kind) ==
    IF Fresh(cache[query], now)
    THEN /\ last' = [query |-> query, df |-> cache[query].df,
                     extracted |-> FALSE, raised |-> FALSE]
         /\ errors' = IF cache[query].error THEN errors \cup {kind} ELSE errors
         /\ UNCHANGED <<cache, failures>>
    ELSE \E outcome \in ExtractOutcomes(kind) :
            LET r == FetchBody(outcome)
            IN  /\ (~outcome.ok) => failures < MaxFailures
                /\ failures' = IF outcome.ok THEN failures ELSE failures + 1
                /\ last' = [query |-> query, df |-> r.df,
                            extracted |-> TRUE, raised |-> r.raised]
                /\ errors' = IF r.error THEN errors \cup {kind} ELSE errors
                /\ cache' = IF r.raised THEN cache
                            ELSE [cache EXCEPT ![query] = Entry(r.df, now, r.error)]

-----------------------------------------------------------------------------
(* main() of the dashboard, one step per fetch_data call *)

DEFAULT_DOLLARS_PER_CREDIT == 3

NoFrames == [k \in Kinds |-> EmptyFrame]

(* dict(zip(df['PARAM_NAME'], df['PARAM_VALUE'])).get(name, default): the   *)
(* last row of a name wins                                                  *)
DictGet(df, name, default) ==
    LET at == {i \in 1..Len(df) : df[i].PARAM_NAME = name}
    IN  IF at = {} THEN default
        ELSE df[CHOOSE i \in at : \A j \in at : j <= i].PARAM_VALUE

(* variant: the emptiness test of get_cost_params inverted, so the rows of  *)
(* the source are never used                                                *)
DollarsPerCreditDefaultsOnly(df) == DEFAULT_DOLLARS_PER_CREDIT

(* get_cost_params, then cost_params.get('DOLLARS_PER_CREDIT', 3.0) *)
DollarsPerCredit(df) ==
    IF ~IsEmpty(df)
    THEN DictGet(df, "DOLLARS_PER_CREDIT", DEFAULT_DOLLARS_PER_CREDIT)
    ELSE DEFAULT_DOLLARS_PER_CREDIT

(* a column of credits times the rate: a null cell stays null *)
CostColumn(df, col, rate) ==
    [i \in 1..Len(df) |-> IF df[i][col] = NaN THEN NaN ELSE df[i][col] * rate]

(* total_cost = wh_metrics['TOTAL_CREDITS'].sum() * dollars_per_credit *)
TotalCost(wh_metrics, rate) == SumSkipNa(Column(wh_metrics, "TOTAL_CREDITS")) * rate

NotComputed == 0 - 1

(* no amount yet: the total is not computed, the cost columns are not added *)
NoAmounts == [total_cost |-> NotComputed, estimated_cost |-> <<>>, daily_cost |-> <<>>]

(* tab 1: the load chart and the queuing alert sit inside the branch of a   *)
(* non-empty warehouse-metrics frame                                        *)
Tab1Panels(wh_metrics, wh_load) ==
    IF ~IsEmpty(wh_metrics)
    THEN {"Summary metrics", "Credit Usage Over Time"}
         \cup (IF ~IsEmpty(wh_load)
               THEN {"Warehouse Load & Queuing"}
                    \cup (IF MaxSeq(Column(wh_load, "AVG_QUEUED_QUERIES")) > 0
                          THEN {"Queuing detected"} ELSE {"No queuing detected"})
               ELSE {})
    ELSE {"No warehouse metrics available"}

Tab2Panels(cost_by_workload, daily_costs) ==
    (IF ~IsEmpty(cost_by_workload)
     THEN LET NotOther(row) == row.MODEL_PATH # "OTHER"
          IN  {"Cost by Workload Type", "Cost by Model Path", "Detailed Cost Breakdown"}
              \cup (IF IsEmpty(SelectSeq(cost_by_workload, NotOther))
                    THEN {"No model path data available"} ELSE {"Cost Comparison"})
     ELSE {})
    \cup (IF ~IsEmpty(daily_costs) THEN {"Daily Cost Trend"} ELSE {})

Tab3Panels(query_perf) ==
    IF ~IsEmpty(query_perf)
    THEN LET Queued(row) == row.QUEUE_TIME_SECONDS > 0
         IN  {"Slowest Queries", "Performance by Workload Type",
              "Query Execution Time Distribution"}
             \cup (IF ~IsEmpty(SelectSeq(query_perf, Queued))
                   THEN {"queries experienced queuing delays"} ELSE {})
    ELSE {"No query performance data available"}

(* a script run starts: the sidebar's selectbox gives the time window *)
Rerun ==
    /\ pc \in {"idle", "done", "aborted"}
    /\ runs < MaxRuns
    /\ runs' = runs + 1
    /\ time_window' \in TimeWindows
    /\ pc' = "cost_params"
    /\ frames' = NoFrames
    /\ dollars_per_credit' = DEFAULT_DOLLARS_PER_CREDIT
    /\ errors' = {}
    /\ panels' = {}
    /\ recommendations' = <<>>
    /\ displayed' = <<>>
    /\ no_issues' = FALSE
    /\ amounts' = NoAmounts
    /\ UNCHANGED <<now, cache, last, failures, metering, setupVars>>

(* one get_...() call of main: the frame lands in the local, or the        *)
(* exception leaves main                                                    *)
MainFetch(at, kind, next) ==
    /\ pc = at
    /\ FetchData(QueryText(kind, time_window), kind)
    /\ IF last'.raised
       THEN pc' = "aborted" /\ UNCHANGED frames
       ELSE pc' = next /\ frames' = [frames EXCEPT ![kind] = last'.df]
    /\ UNCHANGED <<now, runs, time_window, metering, setupVars>>

GetCostParams ==
    /\ MainFetch("cost_params", "cost_params", "tab1_metrics")
    /\ dollars_per_credit' = IF last'.raised THEN dollars_per_credit
                             ELSE DollarsPerCredit(last'.df)
    /\ panels' = IF last'.raised THEN panels ELSE panels \cup {"Cost Parameters"}
    /\ UNCHANGED <<recommendations, displayed, no_issues, amounts>>

Tab1Metrics ==
    /\ MainFetch("tab1_metrics", "warehouse_metrics", "tab1_load")
    /\ UNCHANGED <<dollars_per_credit, panels, recommendations, displayed, no_issues, amounts>>

Tab1Load ==
    /\ MainFetch("tab1_load", "warehouse_load", "tab2_cost")
    /\ panels' = IF last'.raised THEN panels
                 ELSE panels \cup Tab1Panels(frames'["warehouse_metrics"],
                                             frames'["warehouse_load"])
    /\ amounts' = IF last'.raised \/ IsEmpty(frames'["warehouse_metrics"]) THEN amounts
                  ELSE [amounts EXCEPT !.total_cost =
                            TotalCost(frames'["warehouse_metrics"], dollars_per_credit)]
    /\ UNCHANGED <<dollars_per_credit, recommendations, displayed, no_issues>>

Tab2Cost ==
    /\ MainFetch("tab2_cost", "cost_by_workload", "tab2_daily")
    /\ UNCHANGED <<dollars_per_credit, panels, recommendations, displayed, no_issues, amounts>>

Tab2Daily ==
    /\ MainFetch("tab2_daily", "daily_costs", "tab3_perf")
    /\ panels' = IF last'.raised THEN panels
                 ELSE panels \cup Tab2Panels(frames'["cost_by_workload"],
                                             frames'["daily_costs"])
    /\ amounts' = IF last'.raised THEN amounts
                  ELSE [amounts EXCEPT
                          !.estimated_cost = CostColumn(frames'["cost_by_workload"],
                                                        "TOTAL_CREDITS", dollars_per_credit),
                          !.daily_cost = CostColumn(frames'["daily_costs"],
                                                    "DAILY_CREDITS", dollars_per_credit)]
    /\ UNCHANGED <<dollars_per_credit, recommendations, displayed, no_issues>>

Tab3Perf ==
    /\ MainFetch("tab3_perf", "query_performance", "tab4_metrics")
    /\ panels' = IF last'.raised THEN panels
                 ELSE panels \cup Tab3Panels(frames'["query_performance"])
    /\ UNCHANGED <<dollars_per_credit, recommendations, displayed, no_issues, amounts>>

Tab4Metrics ==
    /\ MainFetch("tab4_metrics", "warehouse_metrics", "tab4_load")
    /\ UNCHANGED <<dollars_per_credit, panels, recommendations, displayed, no_issues, amounts>>

Tab4Load ==
    /\ MainFetch("tab4_load", "warehouse_load", "tab4_cost")
    /\ UNCHANGED <<dollars_per_credit, panels, recommendations, displayed, no_issues, amounts>>

Tab4Cost ==
    /\ MainFetch("tab4_cost", "cost_by_workload", "tab4_perf")
    /\ UNCHANGED <<dollars_per_credit, panels, recommendations, displayed, no_issues, amounts>>

Tab4Perf ==
    /\ MainFetch("tab4_perf", "query_performance", "tab4_rules")
    /\ UNCHANGED <<dollars_per_credit, panels, recommendations, displayed, no_issues, amounts>>

(* the rules of tab 4 and the display of their recommendations *)
Tab4Rules ==
    /\ pc = "tab4_rules"
    /\ recommendations' = EvaluateRules(frames["warehouse_load"], frames["warehouse_metrics"],
                                        frames["query_performance"], frames["cost_by_workload"])
    /\ displayed' = IF recommendations' # <<>> THEN SortByPriority(recommendations') ELSE <<>>
    /\ no_issues' = (recommendations' = <<>>)
    /\ panels' = panels \cup {"Optimization Recommendations", "Best Practices Summary"}
    /\ pc' = "done"
    /\ UNCHANGED <<now, cache, last, runs, failures, time_window, frames, dollars_per_credit, errors,
                   amounts, metering, setupVars>>

(* time passes between two steps *)
Tick ==
    /\ \E d \in TickStep : now + d <= MaxTime /\ now' = now + d
    /\ UNCHANGED <<cache, last, pc, runs, failures, time_window, frames, dollars_per_credit, errors,
                   panels, recommendations, displayed, no_issues, amounts, metering, setupVars>>

-----------------------------------------------------------------------------
(* The feature DataFrame of setup_feature_store.  STREAMS is a whole number *)
(* or null (streams are never negative); an average is held as the fraction *)
(* num/den in lowest terms, the null average as 0/0.                        *)

NULL == NaN

UNBOUNDED_PRECEDING == 0 - 1

SourceRow(isrc, week, region, streams) ==
    [ISRC |-> isrc, WEEK_ENDING |-> week, REGION |-> region, STREAMS |-> streams]

(* session.table(...).filter(F.col("REGION") == "Global") *)
IsGlobal(row) == row.REGION = "Global"

SourceDf(table) == SelectSeq(table, IsGlobal)

ISRCs == <<"A", "B">>

(* Window.partition_by("ISRC") *)
PartitionBy(df, isrc) ==
    LET Of(row) == row.ISRC = isrc
    IN  SelectSeq(df, Of)

(* .order_by("WEEK_ENDING"): every order of the rows that is ascending in   *)
(* WEEK_ENDING; rows of one WEEK_ENDING come in an order the engine picks   *)
RECURSIVE OrdersOf(_, _)
OrdersOf(rows, left) ==
    IF left = {} THEN {<<>>}
    ELSE LET first == {i \in left : \A j \in left : rows[i].WEEK_ENDING <= rows[j].WEEK_ENDING}
         IN  UNION {{<<rows[i]>> \o rest : rest \in OrdersOf(rows, left \ {i})} : i \in first}

OrderBy(rows) == OrdersOf(rows, 1..Len(rows))

(* .rows_between(start, CURRENT_ROW) at row i: the values of the frame *)
RowsBetween(values, preceding, i) ==
    LET start == IF preceding = UNBOUNDED_PRECEDING \/ i - preceding < 1 THEN 1 ELSE i - preceding
    IN  SubSeq(values, start, i)

w_avg(values, i) == RowsBetween(values, UNBOUNDED_PRECEDING, i)

(* variant: "last 4 weeks" taken as four rows before the current one *)
w_sumFourPreceding(values, i) == RowsBetween(values, TRAILING_ROWS + 1, i)

w_sum(values, i) == RowsBetween(values, TRAILING_ROWS, i)

NonNull(values) ==
    LET Is(v) == v # NULL
    IN  SelectSeq(values, Is)

(* F.sum: the sum of the non-null values of the frame, null when there is none *)
SqlSum(values) == IF NonNull(values) = <<>> THEN NULL ELSE SumSeq(NonNull(values))

RECURSIVE Gcd(_, _)
Gcd(a, b) == IF b = 0 THEN a ELSE Gcd(b, a % b)

Ratio(n, d) == [num |-> n \div Gcd(n, d), den |-> d \div Gcd(n, d)]

NullRatio == [num |-> 0, den |-> 0]

(* variant: the null cells of the frame count in the denominator *)
SqlAvgCountingNulls(values) ==
    IF NonNull(values) = <<>> THEN NullRatio
    ELSE Ratio(SumSeq(NonNull(values)), Len(values))

(* F.avg: sum / count of the non-null values of the frame, null when there is none *)
SqlAvg(values) ==
    IF NonNull(values) = <<>> THEN NullRatio
    ELSE Ratio(SumSeq(NonNull(values)), Len(NonNull(values)))

(* source_df.select("ISRC", "WEEK_ENDING", F.avg(...).over(w_avg), F.sum(...).over(w_sum)) *)
(* over one ordered partition                                               *)
FeatureRows(ordered) ==
    LET streams == Column(ordered, "STREAMS")
    IN  [i \in 1..Len(ordered) |->
            [ISRC |-> ordered[i].ISRC,
             WEEK_ENDING |-> ordered[i].WEEK_ENDING,
             AVG_STREAMS_TO_DATE |-> SqlAvg(w_avg(streams, i)),
             STREAMS_LAST_4_WEEKS |-> SqlSum(w_sum(streams, i))]]

RECURSIVE FeatureDfsFrom(_, _)
FeatureDfsFrom(df, k) ==
    IF k > Len(ISRCs) THEN {<<>>}
    ELSE {FeatureRows(o) \o rest :
            o \in OrderBy(PartitionBy(df, ISRCs[k])), rest \in FeatureDfsFrom(df, k + 1)}

(* the rows feature_df can give for a table, partition after partition *)
FeatureDfs(table) == FeatureDfsFrom(SourceDf(table), 1)

(* weeks 1..5 of one track, stored latest first *)
ExampleTable ==
    <<SourceRow("A", 5, "Global", 50), SourceRow("A", 4, "Global", 40),
      SourceRow("A", 3, "Global", 30), SourceRow("A", 2, "Global", 20),
      SourceRow("A", 1, "Global", 10)>>

-----------------------------------------------------------------------------
(* setup_feature_store and the feature store service it calls *)

Definitions == {"v1 features", "v1 features after a schema change"}

Absent        == [state |-> "ABSENT", definition |-> ""]
Registered(d) == [state |-> "REGISTERED", definition |-> d]

RegistryStates == {Absent} \cup {Registered(d) : d \in Definitions}

Exception(type, message) == [type |-> type, message |-> message]
NoException == Exception("none", "")

(* the service's answer to a delete of a missing feature view *)
NotFound ==
    {Exception(t, "Failed to find FeatureView") : t \in {"SnowflakeMLException", "ValueError"}}

(* failures that are not the not-found condition *)
OtherFailures ==
    {Exception("SnowflakeMLException", "Insufficient privileges"),
     Exception("ValueError", "Invalid identifier"),
     Exception("TypeError", "unexpected keyword argument"),
     Exception("SnowparkSQLException", "Insufficient privileges")}

(* variant: the handler does not list ValueError *)
CaughtWithoutValueError(e) == e.type \in {"SnowflakeMLException", "TypeError"}

(* variant: the handler re-raises what is not the not-found condition *)
CaughtNotFoundOnly(e) ==
    /\ e.type \in {"SnowflakeMLException", "TypeError", "ValueError"}
    /\ e.message = "Failed to find FeatureView"

(* except (snowml_exceptions.SnowflakeMLException, TypeError, ValueError) *)
Caught(e) == e.type \in {"SnowflakeMLException", "TypeError", "ValueError"}

(* the message printed by the handler *)
HandlerNote(e) ==
    IF e.message # "Failed to find FeatureView"
    THEN "Note: Could not delete existing feature view"
    ELSE "feature view does not exist, proceeding"

(* a call of the run, its outcome, and what the routine printed about it *)
Call(op, e) ==
    [op |-> op, exc |-> e,
     printed |-> IF op = "delete_feature_view" /\ e # NoException /\ Caught(e)
                 THEN HandlerNote(e) ELSE ""]

SetupStart ==
    /\ spc \in {"idle", "done", "aborted"}
    /\ sdef' \in Definitions
    /\ calls' = <<>>
    /\ raised' = NoException
    /\ spc' = "feature_store"
    /\ UNCHANGED <<reg, source_rows, feature_rows, dashVars>>

(* a call whose failure is not handled: FeatureStore(...), register_entity *)
SetupCall(at, op, next) ==
    /\ spc = at
    /\ \E e \in {NoException} \cup OtherFailures :
          /\ calls' = Append(calls, Call(op, e))
          /\ IF e = NoException
             THEN spc' = next /\ UNCHANGED raised
             ELSE spc' = "aborted" /\ raised' = e
    /\ UNCHANGED <<reg, sdef, source_rows, feature_rows, dashVars>>

CreateFeatureStore == SetupCall("feature_store", "FeatureStore", "register_entity")

(* variant: the routine goes from the entity straight to the registration *)
RegisterEntityThenRegister == SetupCall("register_entity", "register_entity", "register")

RegisterEntity == SetupCall("register_entity", "register_entity", "delete")

(* what fs.delete_feature_view can do in a registry state *)
DeleteOutcomes(r) ==
    (IF r.state = "REGISTERED" THEN {NoException} ELSE NotFound) \cup OtherFailures

(* try: fs.delete_feature_view(...) except (...): print and go on *)
DeleteFeatureView ==
    /\ spc = "delete"
    /\ \E e \in DeleteOutcomes(reg) :
          /\ calls' = Append(calls, Call("delete_feature_view", e))
          /\ reg' = IF e = NoException THEN Absent ELSE reg
          /\ feature_rows' = IF e = NoException THEN <<>> ELSE feature_rows
          /\ IF e = NoException \/ Caught(e)
             THEN spc' = "register" /\ UNCHANGED raised
             ELSE spc' = "aborted" /\ raised' = e
    /\ UNCHANGED <<sdef, source_rows, dashVars>>

(* what fs.register_feature_view can do in a registry state: a key that is *)
(* registered with another definition is refused                           *)
RegisterOutcomes(r, d) ==
    (IF r.state = "REGISTERED" /\ r.definition # d
     THEN {Exception("SnowflakeMLException", "FeatureView already exists")}
     ELSE {NoException})
    \cup OtherFailures

RegisterFeatureView ==
    /\ spc = "register"
    /\ \E e \in RegisterOutcomes(reg, sdef) :
          /\ calls' = Append(calls, Call("register_feature_view", e))
          /\ reg' = IF e = NoException THEN Registered(sdef) ELSE reg
          /\ IF e = NoException
             THEN feature_rows' \in FeatureDfs(source_rows)
             ELSE UNCHANGED feature_rows
          /\ IF e = NoException
             THEN spc' = "done" /\ UNCHANGED raised
             ELSE spc' = "aborted" /\ raised' = e
    /\ UNCHANGED <<sdef, source_rows, dashVars>>

-----------------------------------------------------------------------------
(* Specifications *)

DashInit ==
    /\ now = 0
    /\ cache = [q \in Queries |-> NoEntry]
    /\ last = [query |-> QueryText("cost_params", 7), df |-> EmptyFrame,
               extracted |-> FALSE, raised |-> FALSE]
    /\ pc = "idle"
    /\ runs = 0
    /\ failures = 0
    /\ time_window = 7
    /\ frames = NoFrames
    /\ dollars_per_credit = DEFAULT_DOLLARS_PER_CREDIT
    /\ errors = {}
    /\ panels = {}
    /\ recommendations = <<>>
    /\ displayed = <<>>
    /\ no_issues = FALSE
    /\ amounts = NoAmounts
    /\ metering \in MeteringHistories

SetupInit ==
    /\ reg = Absent
    /\ spc = "idle"
    /\ sdef = "v1 features"
    /\ calls = <<>>
    /\ raised = NoException
    /\ source_rows = ExampleTable
    /\ feature_rows = <<>>

(* the dashboard *)
Init == DashInit /\ SetupInit

Next ==
    \/ Rerun
    \/ GetCostParams
    \/ Tab1Metrics
    \/ Tab1Load
    \/ Tab2Cost
    \/ Tab2Daily
    \/ Tab3Perf
    \/ Tab4Metrics
    \/ Tab4Load
    \/ Tab4Cost
    \/ Tab4Perf
    \/ Tab4Rules
    \/ Tick

Spec == Init /\ [][Next]_vars

(* the setup routine, from any state of the registry *)
InitSetup ==
    /\ DashInit
    /\ reg \in RegistryStates
    /\ spc = "idle"
    /\ sdef = "v1 features"
    /\ calls = <<>>
    /\ raised = NoException
    /\ source_rows = ExampleTable
    /\ feature_rows \in (IF reg = Absent THEN {<<>>} ELSE FeatureDfs(source_rows))

NextSetup ==
    \/ SetupStart
    \/ CreateFeatureStore
    \/ RegisterEntity
    \/ DeleteFeatureView
    \/ RegisterFeatureView

SpecSetup == InitSetup /\ [][NextSetup]_vars

-----------------------------------------------------------------------------
(* The rules of tab 4 as a function of the frames: the frames are drawn    *)
(* from the sets below and the rule step of main() is applied to them.     *)

QueuedValues == {0, 200, 225, 500}     \* 0.00, 2.00, 2.25 and 5.00 queued queries
ExecTimes    == {299, 300, 301, 900}   \* seconds
WorkloadTypes == {"TRAINING", "UNTAGGED"}
ModelPaths    == {"ML_FUNCTIONS", "SNOWPARK_XGBOOST", "OTHER"}

RuleLoadFrames ==
    {[i \in 1..Len(s) |-> LoadRow(s[i])] : s \in SeqsUpTo(QueuedValues, MaxRows)}

(* n hourly rows of which the first k have executions *)
HoursFrame(n, k) == [i \in 1..n |-> MetricsRow(i, 1, IF i <= k THEN 1 ELSE 0)]

RuleMetricsFrames ==
    {[i \in 1..Len(s) |-> MetricsRow(i, 1, s[i])] : s \in SeqsUpTo({0, 1, 2}, MaxRows)}
    \cup UNION {{HoursFrame(n, k) : k \in 0..n} : n \in 1..MaxHours}

RulePerfFrames ==
    {[i \in 1..Len(s) |-> PerfRow(s[i], 0)] : s \in SeqsUpTo(ExecTimes, MaxRows)}

CostRows ==
    {CostRow(w, p, c) : w \in WorkloadTypes, p \in ModelPaths, c \in {NaN} \cup 0..MaxCredits}

(* GROUP BY workload_type, model_path: one row per pair;                   *)
(* ORDER BY total_credits DESC: nulls first, then descending               *)
RuleCostFrames ==
    {s \in SeqsUpTo(CostRows, MaxRows) :
        \A i, j \in 1..Len(s) :
            i < j => /\ ~(s[i].WORKLOAD_TYPE = s[j].WORKLOAD_TYPE /\ s[i].MODEL_PATH = s[j].MODEL_PATH)
                     /\ (s[i].TOTAL_CREDITS = NaN \/ (s[j].TOTAL_CREDITS # NaN
                                                      /\ s[i].TOTAL_CREDITS >= s[j].TOTAL_CREDITS))}

BasicLoad    == {<<>>, <<LoadRow(500)>>}
BasicMetrics == {<<>>, HoursFrame(4, 1)}
BasicPerf    == {<<>>, <<PerfRow(900, 0)>>}
BasicCost    == {<<>>, <<CostRow("UNTAGGED", "OTHER", 1)>>}

Bundle(load, metrics, perf, cost) ==
    [k \in Kinds |->
        CASE k = "warehouse_load"    -> load
          [] k = "warehouse_metrics" -> metrics
          [] k = "query_performance" -> perf
          [] k = "cost_by_workload"  -> cost
          [] OTHER                   -> EmptyFrame]

(* every frame of one rule, with the frames of the other rules firing or not *)
RuleBundles ==
    {Bundle(l, m, q, c) : l \in RuleLoadFrames, m \in BasicMetrics, q \in BasicPerf, c \in BasicCost}
    \cup {Bundle(l, m, q, c) : l \in BasicLoad, m \in RuleMetricsFrames, q \in BasicPerf, c \in BasicCost}
    \cup {Bundle(l, m, q, c) : l \in BasicLoad, m \in BasicMetrics, q \in RulePerfFrames, c \in BasicCost}
    \cup {Bundle(l, m, q, c) : l \in BasicLoad, m \in BasicMetrics, q \in BasicPerf, c \in RuleCostFrames}

InitRules ==
    /\ now = 0
    /\ cache = [q \in Queries |-> NoEntry]
    /\ last = [query |-> QueryText("query_performance", 7), df |-> EmptyFrame,
               extracted |-> FALSE, raised |-> FALSE]
    /\ pc = "tab4_rules"
    /\ runs = 1
    /\ failures = 0
    /\ time_window = 7
    /\ frames \in RuleBundles
    /\ dollars_per_credit = DEFAULT_DOLLARS_PER_CREDIT
    /\ errors = {}
    /\ panels = {}
    /\ recommendations = <<>>
    /\ displayed = <<>>
    /\ no_issues = FALSE
    /\ amounts = NoAmounts
    /\ metering \in MeteringHistories
    /\ SetupInit

NextRules == Tab4Rules

SpecRules == InitRules /\ [][NextRules]_vars

-----------------------------------------------------------------------------
(* The cost model of tabs 1 and 2 as a function of the frames: the cache    *)
(* holds, fresh, frames drawn from the sets below (left by a run of the     *)
(* same second), or nothing for the cost parameters, and the script runs    *)
(* from the cost parameters to the end of tab 2.                            *)

ParamNames  == {"DOLLARS_PER_CREDIT", "SP_WH_MEDIUM_CREDITS_PER_HOUR"}
ParamValues == {2, 4}

CostParamFrames ==
    {[i \in 1..Len(s) |-> ParamRow(s[i][1], s[i][2])] :
        s \in SeqsUpTo(ParamNames \X ParamValues, MaxRows)}

(* an entry of the cost parameters: none, a cached failure, or a cached frame *)
CostParamEntries ==
    {NoEntry, Entry(EmptyFrame, 0, TRUE)} \cup {Entry(f, 0, FALSE) : f \in CostParamFrames}

CostMetricsFrames == {EmptyFrame} \cup {WarehouseMetricsResult(h) : h \in MeteringHistories}

(* the rows of the workloads that carry no model path *)
CostWorkloadFrames == {s \in RuleCostFrames : \A i \in 1..Len(s) : s[i].MODEL_PATH = "OTHER"}

CostDailyFrames == {EmptyFrame, <<DailyRow(1, 1), DailyRow(2, MaxCredits)>>}

CostCache(params, metrics, workload, daily) ==
    [q \in Queries |->
        CASE q = QueryText("cost_params", 7)       -> params
          [] q = QueryText("warehouse_metrics", 7) -> Entry(metrics, 0, FALSE)
          [] q = QueryText("cost_by_workload", 7)  -> Entry(workload, 0, FALSE)
          [] q = QueryText("daily_costs", 7)       -> Entry(daily, 0, FALSE)
          [] OTHER                                 -> NoEntry]

InitCost ==
    /\ now = 0
    /\ cache \in {CostCache(p, m, w, d) : p \in CostParamEntries, m \in CostMetricsFrames,
                                          w \in CostWorkloadFrames, d \in CostDailyFrames}
    /\ last = [query |-> QueryText("cost_params", 7), df |-> EmptyFrame,
               extracted |-> FALSE, raised |-> FALSE]
    /\ pc = "cost_params"
    /\ runs = 1
    /\ failures = 0
    /\ time_window = 7
    /\ frames = NoFrames
    /\ dollars_per_credit = DEFAULT_DOLLARS_PER_CREDIT
    /\ errors = {}
    /\ panels = {}
    /\ recommendations = <<>>
    /\ displayed = <<>>
    /\ no_issues = FALSE
    /\ amounts = NoAmounts
    /\ metering \in MeteringHistories
    /\ SetupInit

NextCost ==
    \/ GetCostParams
    \/ Tab1Metrics
    \/ Tab1Load
    \/ Tab2Cost
    \/ Tab2Daily

SpecCost == InitCost /\ [][NextCost]_vars

-----------------------------------------------------------------------------
(* The feature view as a function of the source table: the table is drawn   *)
(* from the sets below and the registration of setup_feature_store is       *)
(* applied to it, after a delete that found no feature view.                *)

StreamValues == {NULL, 10, 20}

(* the weeks 1..n of track A, stored latest first *)
TrackRows(streams) ==
    [i \in 1..Len(streams) |->
        SourceRow("A", Len(streams) + 1 - i, "Global", streams[Len(streams) + 1 - i])]

(* rows stored before them: none, another track, the same track and week in *)
(* another region, a second row of the same track and week                  *)
OtherRows ==
    {<<>>,
     <<SourceRow("B", 2, "Global", 40), SourceRow("B", 1, "Global", NULL)>>,
     <<SourceRow("A", 2, "US", 40)>>,
     <<SourceRow("A", 2, "Global", 40)>>}

SourceTables ==
    {ExampleTable} \cup {o \o TrackRows(s) : o \in OtherRows, s \in SeqsUpTo(StreamValues, MaxWeeks)}

InitFeatures ==
    /\ DashInit
    /\ reg = Absent
    /\ spc = "register"
    /\ sdef = "v1 features"
    /\ \E e \in NotFound :
          calls = <<Call("FeatureStore", NoException), Call("register_entity", NoException),
                    Call("delete_feature_view", e)>>
    /\ raised = NoException
    /\ source_rows \in SourceTables
    /\ feature_rows = <<>>

NextFeatures == RegisterFeatureView

SpecFeatures == InitFeatures /\ [][NextFeatures]_vars

-----------------------------------------------------------------------------
(* The warehouse metrics as a function of the metering history: the history *)
(* is drawn from the set below and the first script run goes from the cost  *)
(* parameters to the recommendations.                                       *)

MeterHours == 1..(MaxRows + 1)

MeterRecords == {MeterRow(h, c) : h \in MeterHours, c \in {0, 1}}

EnumeratedHistories == SeqsUpTo(MeterRecords, MaxRecords)

InitMetrics ==
    /\ now = 0
    /\ cache = [q \in Queries |-> NoEntry]
    /\ last = [query |-> QueryText("cost_params", 7), df |-> EmptyFrame,
               extracted |-> FALSE, raised |-> FALSE]
    /\ pc = "cost_params"
    /\ runs = 1
    /\ failures = 0
    /\ time_window = 7
    /\ frames = NoFrames
    /\ dollars_per_credit = DEFAULT_DOLLARS_PER_CREDIT
    /\ errors = {}
    /\ panels = {}
    /\ recommendations = <<>>
    /\ displayed = <<>>
    /\ no_issues = FALSE
    /\ amounts = NoAmounts
    /\ metering \in EnumeratedHistories
    /\ SetupInit

NextMetrics ==
    \/ GetCostParams
    \/ Tab1Metrics
    \/ Tab1Load
    \/ Tab2Cost
    \/ Tab2Daily
    \/ Tab3Perf
    \/ Tab4Metrics
    \/ Tab4Load
    \/ Tab4Cost
    \/ Tab4Perf
    \/ Tab4Rules

SpecMetrics == InitMetrics /\ [][NextMetrics]_vars

-----------------------------------------------------------------------------
(* Properties *)

FetchSteps == {"cost_params", "tab1_metrics", "tab1_load", "tab2_cost", "tab2_daily",
               "tab3_perf", "tab4_metrics", "tab4_load", "tab4_cost", "tab4_perf"}

KindFetchedAt(p) ==
    CASE p = "cost_params" -> "cost_params"
      [] p \in {"tab1_metrics", "tab4_metrics"} -> "warehouse_metrics"
      [] p \in {"tab1_load", "tab4_load"} -> "warehouse_load"
      [] p \in {"tab2_cost", "tab4_cost"} -> "cost_by_workload"
      [] p = "tab2_daily" -> "daily_costs"
      [] p \in {"tab3_perf", "tab4_perf"} -> "query_performance"

(* C1: a fetch_data(q) call made less than 300 seconds after the extraction *)
(* that filled the entry of q returns the cached frame and runs no          *)
(* extraction; a call that finds no entry or an expired one runs one        *)
(* extraction and stores its result, stamped with the time of the call, as  *)
(* the entry of q; the entries of all other query texts stay as they were.  *)
C1_CacheWithinTtl ==
    [][ (pc \in FetchSteps /\ pc' # pc) =>
            LET q == QueryText(KindFetchedAt(pc), time_window)
                e == cache[q]
                within == e.present /\ now - e.at < 300
            IN  /\ last'.query = q
                /\ within => (~last'.extracted /\ last'.df = e.df /\ cache'[q] = e)
                /\ ~within => (/\ last'.extracted
                               /\ cache'[q].present
                               /\ cache'[q].at = now
                               /\ cache'[q].df = last'.df)
                /\ \A other \in Queries \ {q} : cache'[other] = cache[other] ]_vars

(* C1 witness: tab 4 fetched the warehouse metrics again after the entry of *)
(* tab 1 had expired, while the entry of the cost parameters, older than    *)
(* the new one, is still in the cache.                                      *)
C1_Witness ==
    /\ pc = "tab4_load"
    /\ last.extracted
    /\ now >= 300
    /\ cache[QueryText("warehouse_metrics", time_window)].at = now
    /\ cache[QueryText("cost_params", time_window)].present
    /\ cache[QueryText("cost_params", time_window)].at < now

(* C2: when the extraction of one query fails, main() is not aborted, every *)
(* other query is still fetched, and the panel of every query that returned *)
(* rows is rendered: the warehouse summary and the load chart of tab 1, the *)
(* cost breakdown and the daily trend of tab 2, the query analysis of       *)
(* tab 3, and the recommendations of tab 4.                                 *)
C2_PartialFailure ==
    /\ pc # "aborted"
    /\ pc = "tab2_cost" =>
          /\ ~IsEmpty(frames["warehouse_metrics"]) => "Summary metrics" \in panels
          /\ ~IsEmpty(frames["warehouse_load"]) => "Warehouse Load & Queuing" \in panels
    /\ pc = "tab3_perf" =>
          /\ ~IsEmpty(frames["cost_by_workload"]) => "Detailed Cost Breakdown" \in panels
          /\ ~IsEmpty(frames["daily_costs"]) => "Daily Cost Trend" \in panels
    /\ pc = "tab4_metrics" =>
          (~IsEmpty(frames["query_performance"]) => "Slowest Queries" \in panels)
    /\ pc = "done" =>
          /\ \A k \in Kinds : cache[QueryText(k, time_window)].present
          /\ "Optimization Recommendations" \in panels
          /\ Len(displayed) = Len(EvaluateRules(frames["warehouse_load"],
                                                frames["warehouse_metrics"],
                                                frames["query_performance"],
                                                frames["cost_by_workload"]))

(* the part of C2 that the code keeps: a failed extraction never aborts     *)
(* main(), and a finished run has fetched every query                       *)
C2_NeverAborts ==
    /\ pc # "aborted"
    /\ pc = "done" => \A k \in Kinds : cache[QueryText(k, time_window)].present

DeleteCalls == {i \in 1..Len(calls) : calls[i].op = "delete_feature_view"}

IsNotFound(e) == e.message = "Failed to find FeatureView"

(* C3: when the feature view is ABSENT and delete_feature_view fails with   *)
(* the not-found condition, no exception leaves the routine, the registry   *)
(* stays ABSENT and the routine is at the registration.                     *)
C3_DeleteOfAbsent ==
    [][ (/\ spc = "delete"
         /\ reg = Absent
         /\ Len(calls') = Len(calls) + 1
         /\ IsNotFound(calls'[Len(calls')].exc))
        => (reg' = Absent /\ raised' = NoException /\ spc' = "register") ]_vars

(* C3 witness: a run that met not-found on the delete and then registered *)
C3_Witness ==
    /\ spc = "done"
    /\ \E i \in DeleteCalls : IsNotFound(calls[i].exc)
    /\ calls[Len(calls)] = Call("register_feature_view", NoException)
    /\ reg = Registered(sdef)

(* C4 as stated: a delete failure other than not-found leaves the routine   *)
(* as its exception, and the delete is the last call of the run.            *)
C4_OtherFailurePropagates ==
    \A i \in DeleteCalls :
        (calls[i].exc # NoException /\ ~IsNotFound(calls[i].exc))
        => (spc = "aborted" /\ raised = calls[i].exc /\ Len(calls) = i)

(* C4 amended: a delete failure other than not-found propagates only when   *)
(* its type is none of SnowflakeMLException, TypeError and ValueError; a    *)
(* failure of one of these types is caught whatever its message, and the    *)
(* routine goes on to register_feature_view in the same run.                *)
C4_OtherFailureByType ==
    \A i \in DeleteCalls :
        (calls[i].exc # NoException /\ ~IsNotFound(calls[i].exc))
        => IF calls[i].exc.type \in {"SnowflakeMLException", "TypeError", "ValueError"}
           THEN \/ spc = "register" /\ Len(calls) = i /\ raised = NoException
                \/ Len(calls) = i + 1 /\ calls[i + 1].op = "register_feature_view"
           ELSE spc = "aborted" /\ raised = calls[i].exc /\ Len(calls) = i

(* C4 witness: the delete failed for lack of privileges and the routine     *)
(* called register_feature_view all the same                                *)
C4_Witness ==
    /\ Len(calls) = 4
    /\ calls[3] = Call("delete_feature_view",
                       Exception("SnowflakeMLException", "Insufficient privileges"))
    /\ calls[4].op = "register_feature_view"

OnlyNotFoundFailures ==
    \A i \in 1..Len(calls) : calls[i].exc = NoException \/ IsNotFound(calls[i].exc)

(* C5: in every run the delete of the key is attempted before its           *)
(* registration; from any registry state, a run in which the service fails  *)
(* with nothing but not-found is not aborted and, once finished, leaves the *)
(* key REGISTERED with the definition of that run.                          *)
C5_DeleteThenRegister ==
    /\ \A j \in 1..Len(calls) :
          calls[j].op = "register_feature_view" => \E i \in DeleteCalls : i < j
    /\ spc = "register" => DeleteCalls # {}
    /\ OnlyNotFoundFailures => (spc # "aborted" /\ raised = NoException)
    /\ (OnlyNotFoundFailures /\ spc = "done") => reg = Registered(sdef)

(* C5 witness: a run that deleted a registered view and registered the      *)
(* definition made after a schema change                                    *)
C5_Witness ==
    /\ spc = "done"
    /\ OnlyNotFoundFailures
    /\ \E i \in DeleteCalls : calls[i].exc = NoException
    /\ sdef = "v1 features after a schema change"
    /\ reg = Registered(sdef)

(* the rank the display order goes by, and the place of a recommendation's  *)
(* rule in the evaluation order: queuing, utilization, slow queries,        *)
(* attribution                                                              *)
RankOf(rec) == IF rec.priority = "HIGH" THEN 0 ELSE IF rec.priority = "MEDIUM" THEN 1 ELSE 2

RuleOrder(rec) ==
    IF rec.priority = "HIGH" THEN 1
    ELSE IF rec.priority = "MEDIUM" /\ rec.category = "Cost" THEN 2
    ELSE IF rec.priority = "MEDIUM" THEN 3
    ELSE 4

Emitted(priority, category) ==
    LET Is(rec) == rec.priority = priority /\ rec.category = category
    IN  SelectSeq(recommendations, Is)

WithPriority(priority) ==
    LET Is(rec) == rec.priority = priority
    IN  SelectSeq(recommendations, Is)

(* C6: the displayed recommendations are the emitted ones in ascending      *)
(* priority rank HIGH < MEDIUM < LOW, and two of equal priority are in the  *)
(* order of their rules, so utilization (MEDIUM/Cost) comes before slow     *)
(* queries (MEDIUM/Performance).                                            *)
C6_DisplayOrder ==
    pc = "done" =>
        /\ Len(displayed) = Len(recommendations)
        /\ \A r \in 1..Len(recommendations) : \E d \in 1..Len(displayed) :
              displayed[d] = recommendations[r]
        /\ \A i, j \in 1..Len(displayed) :
              i < j => /\ RankOf(displayed[i]) <= RankOf(displayed[j])
                       /\ RankOf(displayed[i]) = RankOf(displayed[j])
                            => RuleOrder(displayed[i]) < RuleOrder(displayed[j])

(* C6 witness: all four rules fired; the two MEDIUM ones are second and third *)
C6_Witness ==
    /\ pc = "done"
    /\ Len(displayed) = 4
    /\ displayed[2].category = "Cost"
    /\ displayed[3].category = "Performance"

(* C7: one HIGH recommendation, of category Performance, is emitted exactly *)
(* when the warehouse-load frame has a row and its largest                  *)
(* AVG_QUEUED_QUERIES is above 2 (2.00 itself emits none); its text shows   *)
(* that peak to one decimal; there is never another HIGH recommendation.    *)
C7_QueuingRule ==
    pc = "done" =>
        LET wh_load == frames["warehouse_load"]
            above == \E i \in 1..Len(wh_load) : wh_load[i].AVG_QUEUED_QUERIES > 200
            high == WithPriority("HIGH")
        IN  /\ Len(high) = (IF above THEN 1 ELSE 0)
            /\ above =>
                  /\ high[1].category = "Performance"
                  /\ \E i \in 1..Len(wh_load) :
                        /\ \A j \in 1..Len(wh_load) :
                              wh_load[j].AVG_QUEUED_QUERIES <= wh_load[i].AVG_QUEUED_QUERIES
                        /\ 10 * high[1].recommendation.arg - 5 <= wh_load[i].AVG_QUEUED_QUERIES
                        /\ wh_load[i].AVG_QUEUED_QUERIES <= 10 * high[1].recommendation.arg + 5

(* C7 witness: a peak of 5.00 queued queries gave the text "5.0" *)
C7_Witness ==
    /\ pc = "done"
    /\ Len(frames["warehouse_load"]) = 2
    /\ frames["warehouse_load"][1].AVG_QUEUED_QUERIES = 500
    /\ frames["warehouse_load"][2].AVG_QUEUED_QUERIES = 200
    /\ Len(WithPriority("HIGH")) = 1
    /\ WithPriority("HIGH")[1].recommendation.arg = 50

(* C8: one MEDIUM/Performance recommendation is emitted exactly when some   *)
(* row of the query-performance frame has EXECUTION_TIME_SECONDS above 300  *)
(* (300 itself does not count), however many such rows there are, and its   *)
(* issue text holds the number of such rows.                                *)
C8_SlowQueryRule ==
    pc = "done" =>
        LET query_perf == frames["query_performance"]
            slow == {i \in 1..Len(query_perf) : query_perf[i].EXECUTION_TIME_SECONDS > 300}
            emitted == Emitted("MEDIUM", "Performance")
        IN  /\ Len(emitted) = (IF slow # {} THEN 1 ELSE 0)
            /\ slow # {} => emitted[1].issue.arg = Cardinality(slow)

(* C8 witness: two queries above 300 seconds gave one recommendation naming 2 *)
C8_Witness ==
    /\ pc = "done"
    /\ Len(frames["query_performance"]) = 2
    /\ \A i \in 1..2 : frames["query_performance"][i].EXECUTION_TIME_SECONDS > 300
    /\ Len(Emitted("MEDIUM", "Performance")) = 1
    /\ Emitted("MEDIUM", "Performance")[1].issue.arg = 2

CreditsOf(row) == IF row.TOTAL_CREDITS = NaN THEN 0 ELSE row.TOTAL_CREDITS

(* C9: one LOW/Monitoring recommendation is emitted exactly when the share  *)
(* of the UNTAGGED rows in the total credits of the cost-by-workload frame  *)
(* is above 0; the percentage of its issue text is 100 * (credits of all    *)
(* UNTAGGED rows, whatever their model path) / (credits of all rows) to one *)
(* decimal, and 100.0 when every row is UNTAGGED.                           *)
C9_AttributionRule ==
    pc = "done" =>
        LET cost == frames["cost_by_workload"]
            untagged == SumSeq([i \in 1..Len(cost) |->
                                  IF cost[i].WORKLOAD_TYPE = "UNTAGGED" THEN CreditsOf(cost[i]) ELSE 0])
            total == SumSeq([i \in 1..Len(cost) |-> CreditsOf(cost[i])])
            share == total > 0 /\ untagged * 100 > 0 * total
            emitted == Emitted("LOW", "Monitoring")
        IN  /\ Len(emitted) = (IF share THEN 1 ELSE 0)
            /\ share =>
                  /\ 2 * (emitted[1].issue.arg * total - 1000 * untagged) <= total
                  /\ 2 * (1000 * untagged - emitted[1].issue.arg * total) <= total
                  /\ (\A i \in 1..Len(cost) : cost[i].WORKLOAD_TYPE = "UNTAGGED")
                        => emitted[1].issue.arg = 1000

(* C9 witness: two UNTAGGED rows of different model paths gave one          *)
(* recommendation of 100.0%                                                 *)
C9_Witness ==
    /\ pc = "done"
    /\ Len(frames["cost_by_workload"]) = 2
    /\ \A i \in 1..2 : /\ frames["cost_by_workload"][i].WORKLOAD_TYPE = "UNTAGGED"
                       /\ frames["cost_by_workload"][i].TOTAL_CREDITS > 0
    /\ Len(Emitted("LOW", "Monitoring")) = 1
    /\ Emitted("LOW", "Monitoring")[1].issue.arg = 1000

(* C10: one MEDIUM/Cost recommendation is emitted exactly when the          *)
(* warehouse-metrics frame has a row and the rows with EXECUTION_COUNT > 0  *)
(* are less than 30% of its rows (30% itself emits none); an empty frame    *)
(* emits none.                                                              *)
C10_UtilizationRule ==
    pc = "done" =>
        LET wh_metrics == frames["warehouse_metrics"]
            active == Cardinality({i \in 1..Len(wh_metrics) : wh_metrics[i].EXECUTION_COUNT > 0})
            low == Len(wh_metrics) > 0 /\ 10 * active < 3 * Len(wh_metrics)
            emitted == Emitted("MEDIUM", "Cost")
        IN  Len(emitted) = (IF low THEN 1 ELSE 0)

(* C10 witness: 2 active hours out of 10 gave the recommendation, as 20.0%  *)
C10_Witness ==
    /\ pc = "done"
    /\ Len(frames["warehouse_metrics"]) = 10
    /\ Cardinality({i \in 1..10 : frames["warehouse_metrics"][i].EXECUTION_COUNT > 0}) = 2
    /\ Len(Emitted("MEDIUM", "Cost")) = 1
    /\ Emitted("MEDIUM", "Cost")[1].issue.arg = 200

(* the recommendations of a list that carry a rule's priority and category *)
OutputOf(recs, priority, category) ==
    LET Is(rec) == rec.priority = priority /\ rec.category = category
    IN  SelectSeq(recs, Is)

(* C11: the rule step changes no frame, and what each rule appended is what *)
(* it appends for any bundle with the same frame of its own (queuing:       *)
(* warehouse load, utilization: warehouse metrics, slow queries: query      *)
(* performance, attribution: cost by workload), whether the other frames    *)
(* are empty or make their rules fire.                                      *)
C11_RuleIndependence ==
    [][ (pc = "tab4_rules" /\ pc' = "done") =>
            LET load    == frames["warehouse_load"]
                metrics == frames["warehouse_metrics"]
                perf    == frames["query_performance"]
                cost    == frames["cost_by_workload"]
            IN  /\ frames' = frames
                /\ \A m \in BasicMetrics, q \in BasicPerf, c \in BasicCost :
                      OutputOf(recommendations', "HIGH", "Performance")
                        = OutputOf(EvaluateRules(load, m, q, c), "HIGH", "Performance")
                /\ \A l \in BasicLoad, q \in BasicPerf, c \in BasicCost :
                      OutputOf(recommendations', "MEDIUM", "Cost")
                        = OutputOf(EvaluateRules(l, metrics, q, c), "MEDIUM", "Cost")
                /\ \A l \in BasicLoad, m \in BasicMetrics, c \in BasicCost :
                      OutputOf(recommendations', "MEDIUM", "Performance")
                        = OutputOf(EvaluateRules(l, m, perf, c), "MEDIUM", "Performance")
                /\ \A l \in BasicLoad, m \in BasicMetrics, q \in BasicPerf :
                      OutputOf(recommendations', "LOW", "Monitoring")
                        = OutputOf(EvaluateRules(l, m, q, cost), "LOW", "Monitoring") ]_vars

(* C11 witness: an empty warehouse-load frame kept the queuing rule silent  *)
(* while the other three rules appended, utilization among them             *)
C11_Witness ==
    /\ pc = "done"
    /\ IsEmpty(frames["warehouse_load"])
    /\ Len(recommendations) = 3
    /\ Len(OutputOf(recommendations, "MEDIUM", "Cost")) = 1
    /\ Len(OutputOf(recommendations, "HIGH", "Performance")) = 0

(* C12: in a script run every dollar amount is credits times the one value  *)
(* of dollars_per_credit: the total cost of tab 1 is the sum of the         *)
(* TOTAL_CREDITS of the warehouse metrics times it, each ESTIMATED_COST is  *)
(* the row's TOTAL_CREDITS times it, each DAILY_COST is the row's           *)
(* DAILY_CREDITS times it (a null cell stays null).  The value is 3 when    *)
(* get_cost_params got a frame without rows, a failed extraction included,  *)
(* and the PARAM_VALUE of a DOLLARS_PER_CREDIT row when the frame has one.  *)
C12_CostModel ==
    LET params  == frames["cost_params"]
        metrics == frames["warehouse_metrics"]
        cost    == frames["cost_by_workload"]
        daily   == frames["daily_costs"]
        rate    == dollars_per_credit
        Credits(c) == IF c = NaN THEN 0 ELSE c
        Dollars(c) == IF c = NaN THEN NaN ELSE c * rate
    IN  /\ pc \notin {"idle", "cost_params"} =>
              /\ Len(params) = 0 => rate = 3
              /\ (\E i \in 1..Len(params) : params[i].PARAM_NAME = "DOLLARS_PER_CREDIT")
                    => \E i \in 1..Len(params) :
                          /\ params[i].PARAM_NAME = "DOLLARS_PER_CREDIT"
                          /\ rate = params[i].PARAM_VALUE
        /\ (pc \in {"tab2_cost", "tab2_daily", "tab3_perf", "tab4_metrics"} /\ Len(metrics) > 0) =>
              amounts.total_cost
                = SumSeq([i \in 1..Len(metrics) |-> Credits(metrics[i].TOTAL_CREDITS)]) * rate
        /\ pc \in {"tab3_perf", "tab4_metrics", "tab4_load", "tab4_cost"} =>
              /\ Len(amounts.estimated_cost) = Len(cost)
              /\ \A i \in 1..Len(cost) :
                    amounts.estimated_cost[i] = Dollars(cost[i].TOTAL_CREDITS)
              /\ Len(amounts.daily_cost) = Len(daily)
              /\ \A i \in 1..Len(daily) :
                    amounts.daily_cost[i] = Dollars(daily[i].DAILY_CREDITS)

(* C12 witness: the extraction of the cost parameters failed in this run;   *)
(* the total cost and a daily cost are 3 times their credits, and a null    *)
(* TOTAL_CREDITS gave a null ESTIMATED_COST next to a positive one          *)
C12_Witness ==
    /\ pc = "tab3_perf"
    /\ "cost_params" \in errors
    /\ failures = 1
    /\ dollars_per_credit = 3
    /\ amounts.total_cost = 6
    /\ Len(amounts.daily_cost) = 2
    /\ amounts.daily_cost[1] = 3
    /\ Len(amounts.estimated_cost) = 2
    /\ amounts.estimated_cost[1] = NaN
    /\ amounts.estimated_cost[2] = 3

(* the rows of a track that the feature view reads, and its rows in the view *)
TrackInput(isrc) ==
    LET Of(row) == row.ISRC = isrc /\ row.REGION = "Global"
    IN  SelectSeq(source_rows, Of)

TrackOutput(isrc) ==
    LET Of(row) == row.ISRC = isrc
    IN  SelectSeq(feature_rows, Of)

(* the sum and the number of the non-null STREAMS at the indices lo..hi *)
StreamsSum(o, lo, hi) ==
    SumSeq([j \in 1..Len(o) |->
              IF lo <= j /\ j <= hi /\ o[j].STREAMS # NULL THEN o[j].STREAMS ELSE 0])

StreamsCount(o, lo, hi) ==
    Cardinality({j \in 1..Len(o) : lo <= j /\ j <= hi /\ o[j].STREAMS # NULL})

(* C13: the registered view has one row per Global row of the table; for    *)
(* every track, in an order of its rows ascending in WEEK_ENDING, the       *)
(* STREAMS_LAST_4_WEEKS of row i is the sum of the non-null STREAMS of the  *)
(* rows i-3..i of that track (from the first row when i-3 is before it),    *)
(* and null when these rows hold no non-null value.                         *)
C13_TrailingSum ==
    spc = "done" =>
        /\ Len(feature_rows) = Len(SelectSeq(source_rows, IsGlobal))
        /\ \A isrc \in {"A", "B"} :
              LET out == TrackOutput(isrc)
              IN  /\ Len(out) = Len(TrackInput(isrc))
                  /\ \E o \in OrderBy(TrackInput(isrc)) :
                        \A i \in 1..Len(o) :
                            LET lo == IF i - 3 > 1 THEN i - 3 ELSE 1
                            IN  /\ out[i].WEEK_ENDING = o[i].WEEK_ENDING
                                /\ out[i].STREAMS_LAST_4_WEEKS =
                                      (IF StreamsCount(o, lo, i) = 0 THEN NULL
                                       ELSE StreamsSum(o, lo, i))

(* C13 witness: track A with STREAMS 10, 20, null, 10, 10 gave the sums 10, *)
(* 30, 30, 40, 40 (the fifth leaves out the 10 of week 1); track B with     *)
(* STREAMS null, 40 gave null, 40                                           *)
C13_Witness ==
    /\ spc = "done"
    /\ Len(feature_rows) = 7
    /\ Column(TrackInput("A"), "STREAMS") = <<10, 10, NULL, 20, 10>>
    /\ [i \in 1..7 |-> feature_rows[i].STREAMS_LAST_4_WEEKS] = <<10, 30, 30, 40, 40, NULL, 40>>
    /\ feature_rows[6].ISRC = "B"

(* C14: for every track, in an order of its rows ascending in WEEK_ENDING,  *)
(* the AVG_STREAMS_TO_DATE of row i is (sum of the non-null STREAMS of the  *)
(* rows 1..i) / (their number), and null when that number is 0; for the     *)
(* STREAMS 10, 20, 30, 40, 50 it is 10, 15, 20, 25, 30.                     *)
C14_CumulativeAverage ==
    spc = "done" =>
        /\ \A isrc \in {"A", "B"} :
              LET out == TrackOutput(isrc)
              IN  /\ Len(out) = Len(TrackInput(isrc))
                  /\ \E o \in OrderBy(TrackInput(isrc)) :
                        \A i \in 1..Len(o) :
                            LET avg == out[i].AVG_STREAMS_TO_DATE
                            IN  /\ out[i].WEEK_ENDING = o[i].WEEK_ENDING
                                /\ (avg.den = 0) = (StreamsCount(o, 1, i) = 0)
                                /\ avg.num * StreamsCount(o, 1, i) = StreamsSum(o, 1, i) * avg.den
        /\ source_rows = ExampleTable =>
              [i \in 1..Len(feature_rows) |-> feature_rows[i].AVG_STREAMS_TO_DATE]
                = <<[num |-> 10, den |-> 1], [num |-> 15, den |-> 1], [num |-> 20, den |-> 1],
                    [num |-> 25, den |-> 1], [num |-> 30, den |-> 1]>>

(* C14 witness: STREAMS null, 10, null, 20 gave the averages null, 10, 10   *)
(* and 15: the null of week 3 neither counted nor reset the accumulation    *)
C14_Witness ==
    /\ spc = "done"
    /\ Len(TrackInput("A")) = Len(source_rows)
    /\ Len(feature_rows) = 4
    /\ source_rows[2].STREAMS = NULL
    /\ feature_rows[1].AVG_STREAMS_TO_DATE = NullRatio
    /\ feature_rows[2].AVG_STREAMS_TO_DATE = [num |-> 10, den |-> 1]
    /\ feature_rows[3].AVG_STREAMS_TO_DATE = [num |-> 10, den |-> 1]
    /\ feature_rows[4].AVG_STREAMS_TO_DATE = [num |-> 15, den |-> 1]

(* C15: a fetch_data(q) call whose extraction fails stores the empty frame  *)
(* as the entry of q, stamped with the time of the call; a call that finds  *)
(* such an entry less than 300 seconds old returns the empty frame and      *)
(* attempts no extraction, whatever the source would answer; a call that    *)
(* finds it 300 seconds old or older attempts the extraction again.         *)
C15_FailureIsCached ==
    [][ (pc \in FetchSteps /\ pc' # pc) =>
            LET q == QueryText(KindFetchedAt(pc), time_window)
                e == cache[q]
                failed == e.present /\ e.error
            IN  /\ failures' > failures =>
                      /\ last'.df = <<>>
                      /\ cache'[q].present /\ cache'[q].error
                      /\ cache'[q].df = <<>> /\ cache'[q].at = now
                /\ (failed /\ now - e.at < 300) =>
                      /\ ~last'.extracted
                      /\ last'.df = <<>>
                      /\ failures' = failures
                      /\ cache' = cache
                /\ (failed /\ now - e.at >= 300) =>
                      /\ last'.extracted
                      /\ cache'[q].at = now ]_vars

(* C15 witness: the extraction of the warehouse metrics failed in tab 1;    *)
(* 150 seconds later the warehouse load was extracted with rows, and after  *)
(* that tab 4 got the empty frame of the warehouse metrics from the cache   *)
C15_Witness ==
    /\ pc = "tab4_load"
    /\ ~last.extracted
    /\ last.query = QueryText("warehouse_metrics", time_window)
    /\ last.df = <<>>
    /\ cache[last.query].error
    /\ cache[last.query].at < now
    /\ now - cache[last.query].at < 300
    /\ cache[QueryText("warehouse_load", time_window)].at > cache[last.query].at
    /\ Len(cache[QueryText("warehouse_load", time_window)].df) > 0

(* the warehouse-metrics frames the dashboard holds: the local and the cache *)
HeldMetricsFrames ==
    {frames["warehouse_metrics"]}
    \cup {cache[q].df : q \in {QueryText("warehouse_metrics", d) : d \in TimeWindows}}

(* C16: every warehouse-metrics frame the dashboard holds has one row per   *)
(* hour that has metering records, and the row's EXECUTION_COUNT is the     *)
(* number of records of that hour, so at least 1; all its rows are active   *)
(* hours (a utilization of 100%), and neither the list of recommendations   *)
(* nor the display ever holds the MEDIUM/Cost recommendation.               *)
C16_UtilizationNeverFires ==
    /\ \A df \in HeldMetricsFrames :
          /\ \A i \in 1..Len(df) :
                /\ df[i].EXECUTION_COUNT
                     = Cardinality({j \in 1..Len(metering) : metering[j].hour = df[i].HOUR})
                /\ df[i].EXECUTION_COUNT >= 1
                /\ \A k \in 1..Len(df) : df[k].HOUR = df[i].HOUR => k = i
          /\ Cardinality({i \in 1..Len(df) : df[i].EXECUTION_COUNT > 0}) = Len(df)
    /\ \A i \in 1..Len(recommendations) :
          ~(recommendations[i].priority = "MEDIUM" /\ recommendations[i].category = "Cost")
    /\ \A i \in 1..Len(displayed) :
          ~(displayed[i].priority = "MEDIUM" /\ displayed[i].category = "Cost")

(* C16 witness: a finished run over a history of three records in two       *)
(* hours, one of them with no credits: two rows, counts 2 and 1, and the    *)
(* rules ran on them                                                        *)
C16_Witness ==
    /\ pc = "done"
    /\ Len(metering) = 3
    /\ Len(frames["warehouse_metrics"]) = 2
    /\ frames["warehouse_metrics"][1].EXECUTION_COUNT = 2
    /\ frames["warehouse_metrics"][2].EXECUTION_COUNT = 1
    /\ frames["warehouse_metrics"][2].TOTAL_CREDITS = 0
    /\ Len(recommendations) > 0

====
